---------------------------- MODULE Spec2Model ----------------------------
(***************************************************************************)
(* NMB-cli (src/cli.py): the module execution lifecycle.                   *)
(*                                                                         *)
(* The state is the Engine object (its ssh_manager reference and its       *)
(* current ModuleManager with that manager's ssh_manager reference and     *)
(* active_processes table), the SSHModuleManager objects they reference    *)
(* and the connections that dropped ones left open, every local process    *)
(* spawned, the modules/ directory, the log files and the local            *)
(* executables.  One action per command of Engine.run, each                *)
(* taken to completion (the loop is single threaded and blocks on each     *)
(* command); the loop of "install" over the selected modules takes one     *)
(* step per module.  After a command the loop goes back to its prompt.     *)
(***************************************************************************)
EXTENDS Integers, Sequences, FiniteSets, TLC

(* ---------------------------------------------------------------------- *)
(* Bounds                                                                  *)
(* ---------------------------------------------------------------------- *)
MaxLeaked   == 1      \* connections left open by dropped SSHModuleManagers
MaxProcs    == 2      \* local processes spawned
MaxSelect   == 2      \* modules ticked in one "install" dialog
MaxLen      == 4      \* bytes of a file given to convert_line_endings_to_unix
MaxPasses   == 2      \* conversions of one file (launch_module uploads twice)
MaxValue    == 3      \* tokens after the marker of a descriptor line

(* ---------------------------------------------------------------------- *)
(* The catalog: module files the repository URL can deliver, with the      *)
(* fields launch_module reads from them.                                   *)
(* ---------------------------------------------------------------------- *)
NoPath == "None"

Catalog ==
     ("a.sh"  :> [silent |-> TRUE,  logfile |-> "a.log", follow |-> TRUE,
                  deps |-> <<"nmap", "curl">>])
  @@ ("b.py"  :> [silent |-> FALSE, logfile |-> NoPath,  follow |-> FALSE,
                  deps |-> << >>])
  @@ ("c.txt" :> [silent |-> FALSE, logfile |-> NoPath, follow |-> FALSE,
                  deps |-> <<"curl", "nmap">>])

Modules  == DOMAIN Catalog
LogPaths == {Catalog[m].logfile : m \in Modules} \ {NoPath}
Hosts    == {"h1"}

\* str.endswith('.sh') / str.endswith('.py') on the module path
EndsWith(name, ext) ==
  IF ext = ".sh" THEN name \in {"a.sh"}
  ELSE IF ext = ".py" THEN name \in {"b.py"}
  ELSE FALSE

parse_silent_flag(m)     == Catalog[m].silent
parse_logfile_path(m)    == Catalog[m].logfile
parse_follow_log_flag(m) == Catalog[m].follow
parse_dependencies(m)    == Catalog[m].deps

\* the executables found by shutil.which when the program starts
PresentAtStart == {"curl"}

VARIABLES
  storage,           \* names of the files in modules/
  logs,              \* log path -> "absent" | "empty" | "output"
  managers,          \* the SSHModuleManager objects still referenced:
                     \* object id -> [host, client]
  leaked,            \* connections left open by objects no longer referenced
  engine_ssh,        \* Engine.ssh_manager: 0 (None) or an object id
  mm_ssh,            \* Engine.module_manager.ssh_manager: 0 or an object id
  active_processes,  \* Engine.module_manager.active_processes: name -> pid
  procs,             \* every Popen of launch_module: [module, term, out]
  stale,             \* the tracked names whose process has ended by itself
  modules,           \* Engine.module_manager.modules: the names last fetched
  pkgs,              \* executables on the local search path
  todo,              \* modules selected by "install" and not yet installed
  calls,             \* collaborator calls made by the last command, in order
  result,            \* the last command and how it ended
  file,              \* the bytes of the file convert_line_endings_to_unix
                     \* is applied to
  passes,            \* how many times it has been applied to the file
  descriptor,        \* the lines of the module file that is parsed
  parsed,            \* << >>, or the fields the parse_* methods returned
  spawned            \* << >>, or the streams the local Popen was given

\* the Engine and what it acts on
engineVars == <<storage, logs, managers, leaked, engine_ssh, mm_ssh,
                active_processes, procs, stale, modules, pkgs, todo,
                calls, result>>

\* the file contents that the conversions are followed on
textVars == <<file, passes, descriptor, parsed, spawned>>

vars == <<engineVars, textVars>>

EmptyTable == [m \in {} |-> 0]

\* a command of Engine.run and what it returned ("True", "False", "None")
\* or the exception it raised into the loop
Outcome(cmd, out) == [cmd |-> cmd, out |-> out]

Range(f) == {f[x] : x \in DOMAIN f}

\* ids for the SSHModuleManager objects: at most two stay referenced (by
\* Engine.ssh_manager and by the ModuleManager)
ManagerIds == {1, 2}
NoManagers == [i \in {} |-> 0]

\* the number of connections that are open: those of the referenced objects
\* whose client connected and was not closed, and the leaked ones
OpenConnections ==
  leaked + Cardinality({i \in DOMAIN managers : managers[i].client = "open"})

\* Engine.run is at session.prompt: the last command has ended, its outcome
\* has been handled and no selected module waits to be installed
AtPrompt == result.cmd = "prompt" /\ todo = << >>

\* no file content is followed
TextIdle ==
  /\ file = << >>
  /\ passes = 0
  /\ descriptor = << >>
  /\ parsed = << >>
  /\ spawned = << >>

\* Engine.__init__ and setup_directories in an empty working directory
EngineInit ==
  /\ storage = {}
  /\ logs = [p \in LogPaths |-> "absent"]
  /\ managers = NoManagers
  /\ leaked = 0
  /\ engine_ssh = 0
  /\ mm_ssh = 0
  /\ active_processes = EmptyTable
  /\ procs = << >>
  /\ stale = {}
  /\ modules = {}
  /\ pkgs = PresentAtStart
  /\ todo = << >>
  /\ calls = << >>
  /\ result = Outcome("prompt", "None")

Init == EngineInit /\ TextIdle


(* ---------------------------------------------------------------------- *)
(* Helpers of ModuleManager                                                *)
(* ---------------------------------------------------------------------- *)
\* variant: the existence test always passes
ModuleExistsAlways(st, m) == TRUE

\* os.path.exists(os.path.join(self.modules_dir, module_name))
ModuleExists(st, m) == m \in st

\* variant: the else branch of the extension test is missing
SupportedAnyType(m) == TRUE

\* the extension test of launch_module
Supported(m) == EndsWith(m, ".sh") \/ EndsWith(m, ".py")

\* `if self.ssh_manager:` -- the truth value of the reference held by the
\* ModuleManager; an SSHModuleManager object is truthy whatever its client is
UsesRemote(ssh) == ssh # 0

\* variant: a tracked name keeps its first process (setdefault)
TableAfterLaunchKeepsFirst(tbl, remote, m, pid) ==
  IF remote \/ m \in DOMAIN tbl THEN tbl
  ELSE [x \in DOMAIN tbl \cup {m} |-> IF x = m THEN pid ELSE tbl[x]]

\* variant: the assignment to the table is made on both branches
TableAfterLaunchBothBranches(tbl, remote, m, pid) ==
  [x \in DOMAIN tbl \cup {m} |-> IF x = m THEN pid ELSE tbl[x]]

\* self.active_processes after launch_module: the remote branch does not
\* touch it, the local branch assigns active_processes[module_name] = process
TableAfterLaunch(tbl, remote, m, pid) ==
  IF remote THEN tbl
  ELSE [x \in DOMAIN tbl \cup {m} |-> IF x = m THEN pid ELSE tbl[x]]

\* variant: the log path alone decides
redirects_if_path(is_silent, has_path) == has_path

\* `if is_silent and logfile_path and isinstance(logfile_path, str)`
redirects(is_silent, has_path) == is_silent /\ has_path

\* subprocess.Popen(local_command ...): the new process, redirected to the
\* log file when is_silent and logfile_path
NewProcess(m) ==
  [module |-> m, term |-> 0,
   out |-> IF redirects(parse_silent_flag(m), parse_logfile_path(m) # NoPath)
           THEN parse_logfile_path(m) ELSE "inherit"]

\* process.terminate() on the tracked process
Terminate(ps, pid) == [ps EXCEPT ![pid].term = @ + 1]

\* variant: the whole table is cleared
TableAfterStopClears(tbl, m) == [x \in {} |-> 0]

\* del self.active_processes[module_name]
TableAfterStop(tbl, m) == [x \in DOMAIN tbl \ {m} |-> tbl[x]]

(* ---------------------------------------------------------------------- *)
(* ModuleManager.launch_module                                             *)
(* ---------------------------------------------------------------------- *)
\* SSHModuleManager.transfer_file: the fault of the SCP transfer is caught
\* and printed, nothing is returned to the caller
transfer_file(client, m, ok) ==
  IF client = "open" /\ ok THEN <<"upload_ok", m>> ELSE <<"upload_fault", m>>

\* the calls of the remote branch: transfer_file twice, run_remote_script,
\* then open(logfile_path, 'w') and write
RemoteCalls(client, m, u1, u2, ex) ==
  <<transfer_file(client, m, u1), transfer_file(client, m, u2)>> \o
  (IF client = "open" /\ ex
   THEN <<<<"runRemote_ok", m>>>> \o
        (IF parse_logfile_path(m) # NoPath
         THEN <<<<"write", parse_logfile_path(m)>>>>
         ELSE <<<<"open_fault", NoPath>>>>)
   ELSE <<<<"runRemote_fault", m>>>>)

\* how the remote branch ends: exec_command on a closed client (None) is an
\* AttributeError, a transport fault an SSHException, open(None, 'w') a
\* TypeError; none of them is caught in launch_module
RemoteOutcome(client, m, ex) ==
  IF client # "open" THEN "raise:AttributeError"
  ELSE IF ~ex THEN "raise:SSHException"
  ELSE IF parse_logfile_path(m) = NoPath THEN "raise:TypeError"
  ELSE "True"

LaunchNotFound(m) ==
  /\ AtPrompt
  /\ ~ModuleExists(storage, m)
  /\ calls' = << >>
  /\ result' = Outcome("launch", "False")
  /\ UNCHANGED <<storage, logs, managers, leaked, engine_ssh, mm_ssh,
                 active_processes, procs, stale,
                 modules, pkgs, todo>>
  /\ UNCHANGED textVars

LaunchUnsupported(m) ==
  /\ AtPrompt
  /\ ModuleExists(storage, m)
  /\ ~Supported(m)
  /\ calls' = << >>
  /\ result' = Outcome("launch", "False")
  /\ UNCHANGED <<storage, logs, managers, leaked, engine_ssh, mm_ssh,
                 active_processes, procs, stale,
                 modules, pkgs, todo>>
  /\ UNCHANGED textVars

LaunchRemote(m) ==
  /\ AtPrompt
  /\ ModuleExists(storage, m)
  /\ Supported(m)
  /\ UsesRemote(mm_ssh)
  /\ \E u1, u2, ex \in BOOLEAN :
       LET client == managers[mm_ssh].client
           out    == RemoteOutcome(client, m, ex)
       IN /\ calls' = RemoteCalls(client, m, u1, u2, ex)
          /\ result' = Outcome("launch", out)
          /\ logs' = IF out = "True"
                     THEN [logs EXCEPT ![parse_logfile_path(m)] = "output"]
                     ELSE logs
  /\ active_processes' = TableAfterLaunch(active_processes, TRUE, m, 0)
  /\ UNCHANGED <<storage, managers, leaked, engine_ssh, mm_ssh, procs, stale,
                 modules, pkgs, todo>>
  /\ UNCHANGED textVars

LaunchLocal(m) ==
  /\ AtPrompt
  /\ ModuleExists(storage, m)
  /\ Supported(m)
  /\ ~UsesRemote(mm_ssh)
  /\ Len(procs) < MaxProcs
  /\ LET p  == NewProcess(m)
         lf == parse_logfile_path(m)
     IN /\ procs' = Append(procs, p)
        /\ logs' = IF p.out # "inherit" /\ logs[p.out] = "absent"
                   THEN [logs EXCEPT ![p.out] = "empty"] ELSE logs
        /\ calls' = (IF p.out # "inherit"
                     THEN <<<<"open_append", p.out>>>> ELSE << >>)
                    \o <<<<"spawn", m>>>> \o
                    (IF parse_follow_log_flag(m) /\ lf # NoPath
                     THEN <<<<"tail", lf>>>> ELSE << >>)
  /\ active_processes' =
       TableAfterLaunch(active_processes, FALSE, m, Len(procs) + 1)
  /\ stale' = stale \ {m}
  /\ result' = Outcome("launch", "True")
  /\ UNCHANGED <<storage, managers, leaked, engine_ssh, mm_ssh,
                 modules, pkgs, todo>>
  /\ UNCHANGED textVars

Launch(m) ==
  \/ LaunchNotFound(m)
  \/ LaunchUnsupported(m)
  \/ LaunchRemote(m)
  \/ LaunchLocal(m)

(* ---------------------------------------------------------------------- *)
(* ModuleManager.stop_module, remove_module, install_module                *)
(* ---------------------------------------------------------------------- *)
StopTracked(m) ==
  /\ AtPrompt
  /\ m \in DOMAIN active_processes
  /\ procs' = Terminate(procs, active_processes[m])
  /\ active_processes' = TableAfterStop(active_processes, m)
  /\ stale' = stale \ {m}
  /\ calls' = << >>
  /\ result' = Outcome("stop", "None")
  /\ UNCHANGED <<storage, logs, managers, leaked, engine_ssh, mm_ssh,
                 modules, pkgs, todo>>
  /\ UNCHANGED textVars

StopUntracked(m) ==
  /\ AtPrompt
  /\ m \notin DOMAIN active_processes
  /\ calls' = << >>
  /\ result' = Outcome("stop", "None")
  /\ UNCHANGED <<storage, logs, managers, leaked, engine_ssh, mm_ssh,
                 active_processes, procs, stale,
                 modules, pkgs, todo>>
  /\ UNCHANGED textVars

Stop(m) == StopTracked(m) \/ StopUntracked(m)

\* variant: the running instance of the removed module is stopped too
RemoveStopsInstance(m) ==
  /\ AtPrompt
  /\ storage' = storage \ {m}
  /\ calls' = << >>
  /\ result' = Outcome("remove", IF ModuleExists(storage, m) THEN "True" ELSE "False")
  /\ procs' = IF m \in DOMAIN active_processes
              THEN Terminate(procs, active_processes[m]) ELSE procs
  /\ active_processes' = TableAfterStop(active_processes, m)
  /\ stale' = stale \ {m}
  /\ UNCHANGED <<logs, managers, leaked, engine_ssh, mm_ssh,
                 modules, pkgs, todo>>
  /\ UNCHANGED textVars

\* ModuleManager.remove_module
Remove(m) ==
  /\ AtPrompt
  /\ storage' = storage \ {m}
  /\ calls' = << >>
  /\ result' = Outcome("remove", IF ModuleExists(storage, m) THEN "True" ELSE "False")
  /\ UNCHANGED <<logs, managers, leaked, engine_ssh, mm_ssh, active_processes, procs, stale,
                 modules, pkgs, todo>>
  /\ UNCHANGED textVars

\* ModuleManager.is_dependency_installed
is_dependency_installed(pk, dep) == dep \in pk

\* the install commands among the calls issued so far
AptCalls(issued) ==
  Cardinality({i \in DOMAIN issued : issued[i][1] \in {"apt", "apt_fault"}})

\* variant: subprocess.run without check=True, a failing install command
\* is not noticed
RECURSIVE install_local_unchecked(_, _, _, _)
install_local_unchecked(deps, pk, issued, failAt) ==
  IF deps = << >> THEN [pkgs |-> pk, cmds |-> issued, out |-> "installed"]
  ELSE LET checked == Append(issued, <<"which", Head(deps)>>)
       IN IF is_dependency_installed(pk, Head(deps))
          THEN install_local_unchecked(Tail(deps), pk, checked, failAt)
          ELSE IF AptCalls(checked) + 1 = failAt
          THEN install_local_unchecked(Tail(deps), pk,
                 Append(checked, <<"apt_fault", Head(deps)>>), failAt)
          ELSE install_local_unchecked(Tail(deps), pk \cup {Head(deps)},
                 Append(checked, <<"apt", Head(deps)>>), failAt)

\* install_dependencies without an ssh_manager: each dependency is looked
\* up with shutil.which; one that is found is skipped, one that is not is
\* installed with subprocess.run(check=True), whose failure (the failAt-th
\* install command) leaves the loop as CalledProcessError
RECURSIVE install_local(_, _, _, _)
install_local(deps, pk, issued, failAt) ==
  IF deps = << >> THEN [pkgs |-> pk, cmds |-> issued, out |-> "installed"]
  ELSE LET checked == Append(issued, <<"which", Head(deps)>>)
       IN IF is_dependency_installed(pk, Head(deps))
          THEN install_local(Tail(deps), pk, checked, failAt)
          ELSE IF AptCalls(checked) + 1 = failAt
          THEN [pkgs |-> pk,
                cmds |-> Append(checked, <<"apt_fault", Head(deps)>>),
                out |-> "raise:CalledProcessError"]
          ELSE install_local(Tail(deps), pk \cup {Head(deps)},
                             Append(checked, <<"apt", Head(deps)>>), failAt)

\* install_dependencies with an ssh_manager: exec_command of the install
\* command for every dependency, no presence test; exec_command on a closed
\* client (None) is an AttributeError, a transport fault (at the failAt-th
\* command) an SSHException
RECURSIVE install_remote(_, _, _, _, _)
install_remote(deps, pk, client, issued, failAt) ==
  IF deps = << >> THEN [pkgs |-> pk, cmds |-> issued, out |-> "installed"]
  ELSE IF client # "open"
       THEN [pkgs |-> pk, cmds |-> issued, out |-> "raise:AttributeError"]
  ELSE IF Len(issued) + 1 = failAt
       THEN [pkgs |-> pk, cmds |-> Append(issued, <<"ssh_apt_fault", Head(deps)>>),
             out |-> "raise:SSHException"]
  ELSE install_remote(Tail(deps), pk, client,
                      Append(issued, <<"ssh_apt", Head(deps)>>), failAt)

install_dependencies(deps, pk, ssh, ms, failAt) ==
  IF UsesRemote(ssh)
  THEN install_remote(deps, pk, ms[ssh].client, << >>, failAt)
  ELSE install_local(deps, pk, << >>, failAt)

\* ModuleManager.fetch_modules: the catalog listing, or the names kept when
\* the request fails
fetch_modules(names, ok) == IF ok THEN Modules ELSE names

\* "update"
Update ==
  /\ AtPrompt
  /\ \E ok \in BOOLEAN :
       /\ modules' = fetch_modules(modules, ok)
       /\ result' = Outcome("update", IF ok THEN "True" ELSE "False")
  /\ calls' = << >>
  /\ UNCHANGED <<storage, logs, managers, leaked, engine_ssh, mm_ssh,
                 active_processes, procs, stale, pkgs, todo>>
  /\ UNCHANGED textVars

\* the lists of at most MaxSelect different names
RECURSIVE Selections(_, _)
Selections(names, n) ==
  IF n = 0 THEN {<< >>}
  ELSE LET shorter == Selections(names, n - 1)
       IN shorter \cup
          {Append(sel, m) : sel \in shorter, m \in names} 

Distinct(sel) == \A i, j \in DOMAIN sel : i # j => sel[i] # sel[j]

\* "install": show_and_select_modules offers self.modules; the ticked names
\* are then installed one after the other
InstallSelect ==
  /\ AtPrompt
  /\ \E sel \in Selections(modules, MaxSelect) :
       /\ sel # << >>
       /\ Distinct(sel)
       /\ todo' = sel
  /\ calls' = << >>
  /\ result' = Outcome("install", "selected")
  /\ UNCHANGED <<storage, logs, managers, leaked, engine_ssh, mm_ssh,
                 active_processes, procs, stale, modules, pkgs>>
  /\ UNCHANGED textVars

\* "install" with the dialog cancelled: the loop over None is a TypeError
InstallCancelled ==
  /\ AtPrompt
  /\ calls' = << >>
  /\ result' = Outcome("install", "raise:TypeError")
  /\ UNCHANGED <<storage, logs, managers, leaked, engine_ssh, mm_ssh,
                 active_processes, procs, stale, modules, pkgs, todo>>
  /\ UNCHANGED textVars

\* ModuleManager.list_installed_modules: the regular files of the modules
\* directory
list_installed_modules(st) == {m \in Modules : m \in st}

\* variant: a loop that catches the fault of one module and goes on with
\* the next
selected_after_caught(sel, out) == Tail(sel)

\* `for module in selected_modules: install_module(module)`: the loop has
\* no handler of its own, an exception out of install_module leaves it with
\* the rest of the selection untouched
selected_after(sel, out) ==
  IF out \in {"installed", "None"} THEN Tail(sel) ELSE << >>

\* install_module of the next selected name: download_module (the listing
\* is fetched again, the file is written when the catalog answers), then
\* parse_dependencies and install_dependencies; an exception ends the loop
\* over the selection
InstallModule ==
  /\ todo # << >>
  /\ LET m == Head(todo)
     IN \E dl \in {"ok", "status", "raise"}, fetched \in BOOLEAN,
           failAt \in 0..Len(parse_dependencies(m)) :
          LET r == IF dl = "ok"
                   THEN install_dependencies(parse_dependencies(m), pkgs,
                                             mm_ssh, managers, failAt)
                   ELSE [pkgs |-> pkgs, cmds |-> << >>,
                         out |-> IF dl = "raise"
                                 THEN "raise:RequestException" ELSE "None"]
          IN /\ (dl = "ok" => fetched)
             /\ (dl # "ok" => failAt = 0)
             /\ modules' = fetch_modules(modules, fetched)
             /\ storage' = IF dl = "ok" THEN storage \cup {m} ELSE storage
             /\ pkgs' = r.pkgs
             /\ calls' = r.cmds
             /\ result' = Outcome("install", r.out)
             /\ todo' = selected_after(todo, r.out)
  /\ UNCHANGED <<logs, managers, leaked, engine_ssh, mm_ssh, active_processes, procs, stale>>
  /\ UNCHANGED textVars

(* ---------------------------------------------------------------------- *)
(* Engine.handle_ssh_connect, handle_ssh_disconnect                        *)
(* ---------------------------------------------------------------------- *)
\* the objects that Engine.ssh_manager (e) and the ModuleManager's
\* ssh_manager (m) reference; the others are dropped as they are: nothing
\* calls disconnect() on them
Referenced(ms, e, m) == [i \in DOMAIN ms \cap {e, m} |-> ms[i]]

Dropped(ms, e, m) ==
  Cardinality({i \in DOMAIN ms \ {e, m} : ms[i].client = "open"})

\* SSHModuleManager(hostname, username, remote_path): a new object, under
\* the first id that no object of ms has
NewId(ms) ==
  CHOOSE i \in ManagerIds \ DOMAIN ms :
    \A j \in ManagerIds \ DOMAIN ms : i <= j

WithManager(ms, id, rec) ==
  [i \in DOMAIN ms \cup {id} |-> IF i = id THEN rec ELSE ms[i]]

\* the new SSHModuleManager is assigned to Engine.ssh_manager before
\* connect() is tried; after connect() a new ModuleManager holds it too, so
\* that no reference to an earlier SSHModuleManager is left
ConnectOk(h) ==
  /\ AtPrompt
  /\ leaked + Dropped(managers, 0, 0) <= MaxLeaked
  /\ LET kept == Referenced(managers, 0, 0)
         id   == NewId(kept)
     IN /\ managers' = WithManager(kept, id, [host |-> h, client |-> "open"])
        /\ engine_ssh' = id
        /\ mm_ssh' = id
  /\ leaked' = leaked + Dropped(managers, 0, 0)
  /\ active_processes' = EmptyTable
  /\ stale' = {}
  /\ modules' = {}
  /\ calls' = << >>
  /\ result' = Outcome("connect", "None")
  /\ UNCHANGED <<storage, logs, procs,
                 pkgs, todo>>
  /\ UNCHANGED textVars

\* a fault of connect() leaves the ModuleManager and its reference alone
ConnectFault(h) ==
  /\ AtPrompt
  /\ leaked + Dropped(managers, 0, mm_ssh) <= MaxLeaked
  /\ LET kept == Referenced(managers, 0, mm_ssh)
         id   == NewId(kept)
     IN /\ managers' = WithManager(kept, id,
                                   [host |-> h, client |-> "unconnected"])
        /\ engine_ssh' = id
  /\ leaked' = leaked + Dropped(managers, 0, mm_ssh)
  /\ calls' = << >>
  /\ result' = Outcome("connect", "raise:SSHException")
  /\ UNCHANGED <<storage, logs, mm_ssh, active_processes, procs, stale,
                 modules, pkgs, todo>>
  /\ UNCHANGED textVars

\* "connect" without the user@host shape: the usage message of run, or the
\* ValueError caught in handle_ssh_connect
ConnectMalformed ==
  /\ AtPrompt
  /\ calls' = << >>
  /\ result' = Outcome("connect", "None")
  /\ UNCHANGED <<storage, logs, managers, leaked, engine_ssh, mm_ssh,
                 active_processes, procs, stale,
                 modules, pkgs, todo>>
  /\ UNCHANGED textVars

\* SSHModuleManager.disconnect: close the client and forget it
disconnect(ms, i) == [ms EXCEPT ![i].client = "None"]

Disconnect ==
  /\ AtPrompt
  /\ IF engine_ssh # 0
     THEN /\ managers' =
               Referenced(disconnect(managers, engine_ssh), 0, mm_ssh)
          /\ leaked' = leaked
          /\ engine_ssh' = 0
          /\ calls' = << >>
          /\ result' = Outcome("disconnect", "None")
     ELSE /\ UNCHANGED <<managers, leaked, engine_ssh>>
          /\ calls' = << >>
          /\ result' = Outcome("disconnect", "None")
  /\ UNCHANGED <<storage, logs, mm_ssh, active_processes, procs, stale,
                 modules, pkgs, todo>>
  /\ UNCHANGED textVars

\* get_bottom_toolbar_tokens: `app.ssh_manager and app.ssh_manager.ssh_client`;
\* the client is None before connect() and after disconnect(), an SSHClient
\* object (true) from the first lines of connect() on, connected or not
get_bottom_toolbar_tokens(ms, e) ==
  IF e # 0 /\ ms[e].client # "None"
  THEN <<"Connected to", ms[e].host>>
  ELSE <<"No Active SSH Connection">>

(* ---------------------------------------------------------------------- *)
(* Engine.run: the commands without effect on the engine, the except       *)
(* clauses, and back to the prompt                                         *)
(* ---------------------------------------------------------------------- *)
\* the exceptions that reach the try statement of run
Raises == {"raise:TypeError", "raise:SSHException", "raise:AttributeError",
           "raise:CalledProcessError", "raise:RequestException",
           "raise:IsADirectoryError", "raise:KeyboardInterrupt",
           "raise:EOFError"}

\* "read <log_file>": read_log prints the file or, on FileNotFoundError,
\* that it is not found; any other fault of open or read is not caught there
Read ==
  /\ AtPrompt
  /\ \E out \in {"None", "raise:IsADirectoryError"} :
       result' = Outcome("read", out)
  /\ calls' = << >>
  /\ UNCHANGED <<storage, logs, managers, leaked, engine_ssh, mm_ssh,
                 active_processes, procs, stale, modules, pkgs, todo>>
  /\ UNCHANGED textVars

\* "exit"
Exit ==
  /\ AtPrompt
  /\ result' = Outcome("exit", "break")
  /\ calls' = << >>
  /\ UNCHANGED <<storage, logs, managers, leaked, engine_ssh, mm_ssh,
                 active_processes, procs, stale, modules, pkgs, todo>>
  /\ UNCHANGED textVars

\* Ctrl+C and Ctrl+D at session.prompt
Interrupt ==
  /\ AtPrompt
  /\ result' = Outcome("interrupt", "raise:KeyboardInterrupt")
  /\ calls' = << >>
  /\ UNCHANGED <<storage, logs, managers, leaked, engine_ssh, mm_ssh,
                 active_processes, procs, stale, modules, pkgs, todo>>
  /\ UNCHANGED textVars

EndOfInput ==
  /\ AtPrompt
  /\ result' = Outcome("eof", "raise:EOFError")
  /\ calls' = << >>
  /\ UNCHANGED <<storage, logs, managers, leaked, engine_ssh, mm_ssh,
                 active_processes, procs, stale, modules, pkgs, todo>>
  /\ UNCHANGED textVars

\* the except clauses of run, in their order: KeyboardInterrupt prints and
\* continues, EOFError breaks, TypeError passes, any other Exception is
\* printed with print_error
except_clause(raised) ==
  IF raised = "raise:KeyboardInterrupt" THEN "continue"
  ELSE IF raised = "raise:EOFError" THEN "break"
  ELSE IF raised = "raise:TypeError" THEN "pass"
  ELSE "print_error"

Except ==
  /\ result.out \in Raises
  /\ todo = << >>
  /\ result' = Outcome(result.cmd, except_clause(result.out))
  /\ calls' = << >>
  /\ UNCHANGED <<storage, logs, managers, leaked, engine_ssh, mm_ssh,
                 active_processes, procs, stale, modules, pkgs, todo>>
  /\ UNCHANGED textVars

\* the next turn of `while True`, unless the loop was left
Prompt ==
  /\ result.cmd # "prompt"
  /\ result.out \notin Raises
  /\ result.out # "break"
  /\ todo = << >>
  /\ result' = Outcome("prompt", "None")
  /\ calls' = << >>
  /\ UNCHANGED <<storage, logs, managers, leaked, engine_ssh, mm_ssh,
                 active_processes, procs, stale, modules, pkgs, todo>>
  /\ UNCHANGED textVars

(* ---------------------------------------------------------------------- *)
(* The environment: the process of a tracked module ends by itself         *)
(* ---------------------------------------------------------------------- *)
NaturalExit(m) ==
  /\ m \in DOMAIN active_processes
  /\ m \notin stale
  /\ stale' = stale \cup {m}
  /\ UNCHANGED <<storage, logs, managers, leaked, engine_ssh, mm_ssh,
                 active_processes, procs, modules, pkgs, todo, calls, result>>
  /\ UNCHANGED textVars

Next ==
  \/ \E m \in Modules : LaunchNotFound(m)
  \/ \E m \in Modules : LaunchUnsupported(m)
  \/ \E m \in Modules : LaunchRemote(m)
  \/ \E m \in Modules : LaunchLocal(m)
  \/ \E m \in Modules : StopTracked(m)
  \/ \E m \in Modules : StopUntracked(m)
  \/ \E m \in Modules : Remove(m)
  \/ Update
  \/ InstallSelect
  \/ InstallCancelled
  \/ InstallModule
  \/ \E h \in Hosts : ConnectOk(h)
  \/ \E h \in Hosts : ConnectFault(h)
  \/ ConnectMalformed
  \/ Disconnect
  \/ Read
  \/ Exit
  \/ Interrupt
  \/ EndOfInput
  \/ Except
  \/ Prompt
  \/ \E m \in Modules : NaturalExit(m)

Spec == Init /\ [][Next]_vars

TypeOK ==
  /\ storage \subseteq Modules
  /\ DOMAIN managers = {engine_ssh, mm_ssh} \ {0}
  /\ DOMAIN managers \subseteq ManagerIds
  /\ leaked \in 0..MaxLeaked
  /\ DOMAIN active_processes \subseteq Modules
  /\ Range(active_processes) \subseteq DOMAIN procs
  /\ stale \subseteq DOMAIN active_processes
  /\ modules \in {{}, Modules}
  /\ pkgs \subseteq {"curl", "nmap"}
  /\ Len(todo) <= MaxSelect


(* ---------------------------------------------------------------------- *)
(* SSHModuleManager.convert_line_endings_to_unix                           *)
(* ---------------------------------------------------------------------- *)
\* the bytes told apart: carriage return, line feed, another ASCII byte, and
\* a byte that no UTF-8 text contains
Bytes == {"CR", "LF", "x", "xFF"}

RECURSIVE SeqsUpTo(_, _)
SeqsUpTo(S, n) ==
  IF n = 0 THEN {<< >>}
  ELSE LET shorter == SeqsUpTo(S, n - 1)
       IN shorter \cup {Append(q, b) : q \in shorter, b \in S}

Contents == SeqsUpTo(Bytes, MaxLen)

\* file.read().decode('utf-8') raises UnicodeDecodeError on such a byte
Decodes(content) == \A i \in DOMAIN content : content[i] # "xFF"

\* str.replace('\r\n', '\n'): the occurrences are found from the left, one
\* after the other, in the text as it was read; the result is not scanned
RECURSIVE replace_crlf(_)
replace_crlf(text) ==
  IF text = << >> THEN << >>
  ELSE IF Len(text) >= 2 /\ text[1] = "CR" /\ text[2] = "LF"
       THEN <<"LF">> \o replace_crlf(SubSeq(text, 3, Len(text)))
  ELSE <<text[1]>> \o replace_crlf(Tail(text))

\* the content of the file after the call: rewritten with the replaced
\* text, or left as it is when the except clause caught the decoding fault
convert_line_endings_to_unix(content) ==
  IF Decodes(content) THEN replace_crlf(content) ELSE content

\* one call of transfer_file on an existing file: the conversion
Convert ==
  /\ passes < MaxPasses
  /\ file' = convert_line_endings_to_unix(file)
  /\ passes' = passes + 1
  /\ UNCHANGED <<engineVars, descriptor, parsed, spawned>>

\* any file content may be in modules/ under the name of a module
NormInit ==
  /\ EngineInit
  /\ file \in Contents
  /\ passes = 0
  /\ descriptor = << >>
  /\ parsed = << >>
  /\ spawned = << >>

NormNext == Convert

NormSpec == NormInit /\ [][NormNext]_vars

(* ---------------------------------------------------------------------- *)
(* ModuleManager.parse_*: the descriptor lines of a module file            *)
(* ---------------------------------------------------------------------- *)
\* A line is a sequence of tokens: a word, or one of the characters the
\* parsers look at.  A marker line is the marker word, ":" and the rest.
Words      == {"true", "TRUE", "w"}
Separators == {":", ",", " "}
Tokens     == Words \cup Separators

Markers == {"# Silent", "# Follow_log", "# Logfile", "# Dependencies",
            "# Inputs"}

Values == SeqsUpTo(Tokens, MaxValue)

MarkerLines == {<<mk, ":">> \o v : mk \in Markers, v \in Values}

\* lines that stand around the line looked at: other marker lines, a marker
\* word that is not followed by ":", and a line of code
OtherLines ==
  {<<mk, ":", " ", "true">> : mk \in Markers}
  \cup {<<"# Silent", " ", "true">>, <<"w", ":", "true">>}

\* a module file: the line looked at and, or not, a line around it
Arrange(l, o, first) ==
  LET one(x) == IF x = << >> THEN << >> ELSE <<x>>
  IN IF first THEN one(l) \o one(o) ELSE one(o) \o one(l)

\* line.startswith('# Silent:') and the like
startswith(line, mk) == Len(line) >= 2 /\ line[1] = mk /\ line[2] = ":"

\* str.strip(): without the blanks at both ends
RECURSIVE lstrip(_)
lstrip(text) ==
  IF text # << >> /\ Head(text) = " " THEN lstrip(Tail(text)) ELSE text

RECURSIVE rstrip(_)
rstrip(text) ==
  IF text # << >> /\ text[Len(text)] = " "
  THEN rstrip(SubSeq(text, 1, Len(text) - 1)) ELSE text

strip(text) == lstrip(rstrip(text))

\* str.split(sep): the pieces between the occurrences of sep, all of them
RECURSIVE split(_, _)
split(text, sep) ==
  IF \A i \in DOMAIN text : text[i] # sep THEN <<text>>
  ELSE LET i == CHOOSE k \in DOMAIN text :
                  text[k] = sep /\ \A j \in 1..(k - 1) : text[j] # sep
       IN <<SubSeq(text, 1, i - 1)>> \o
          split(SubSeq(text, i + 1, Len(text)), sep)

\* str.lower()
lower(text) ==
  [i \in DOMAIN text |-> IF text[i] = "TRUE" THEN "true" ELSE text[i]]

\* the first line of the file that starts with the marker, << >> if none:
\* the `for line in file` loops return or break at the first match
RECURSIVE FirstMarked(_, _)
FirstMarked(lines, mk) ==
  IF lines = << >> THEN << >>
  ELSE IF startswith(Head(lines), mk) THEN <<Head(lines)>>
  ELSE FirstMarked(Tail(lines), mk)

\* line.strip().split(':')[1]: the piece between the first colon of the line
\* and the next one
AfterColon(line) == split(strip(line), ":")[2]

\* None and a str, as values of one kind
None == [none |-> TRUE, text |-> << >>]
Str(text) == [none |-> FALSE, text |-> text]

parse_flag(lines, mk) ==
  LET found == FirstMarked(lines, mk)
  IN IF found = << >> THEN FALSE
     ELSE lower(strip(AfterColon(found[1]))) = <<"true">>

silent_flag(lines) == parse_flag(lines, "# Silent")
follow_log_flag(lines) == parse_flag(lines, "# Follow_log")

logfile_path(lines) ==
  LET found == FirstMarked(lines, "# Logfile")
  IN IF found = << >> THEN None ELSE Str(strip(AfterColon(found[1])))

parse_list(lines, mk) ==
  LET found == FirstMarked(lines, mk)
  IN IF found = << >> THEN << >>
     ELSE LET items == split(AfterColon(found[1]), ",")
          IN [i \in DOMAIN items |-> strip(items[i])]

dependencies(lines) == parse_list(lines, "# Dependencies")
inputs(lines) == parse_list(lines, "# Inputs")

\* the parse_* calls of install_module, select_and_launch_module and
\* launch_module on one module file
Parse ==
  /\ parsed = << >>
  /\ parsed' = <<[silent |-> silent_flag(descriptor),
                  follow |-> follow_log_flag(descriptor),
                  logfile |-> logfile_path(descriptor),
                  deps |-> dependencies(descriptor),
                  inputs |-> inputs(descriptor)]>>
  /\ UNCHANGED <<engineVars, file, passes, descriptor, spawned>>

DescInit ==
  /\ EngineInit
  /\ file = << >>
  /\ passes = 0
  /\ \E l \in MarkerLines \cup {<< >>}, o \in OtherLines \cup {<< >>},
        first \in BOOLEAN :
       descriptor = Arrange(l, o, first)
  /\ parsed = << >>
  /\ spawned = << >>

\* the truth value of what parse_logfile_path returned: None and '' are
\* false
truthy(value) == ~value.none /\ value.text # << >>

\* the local branch of launch_module on the parsed fields: the log file is
\* opened for appending and given to Popen as stdout and stderr, or Popen is
\* given no streams and the process inherits those of the caller
SpawnLocal ==
  /\ parsed # << >>
  /\ spawned = << >>
  /\ LET d == parsed[1]
     IN spawned' =
          <<IF redirects(d.silent, truthy(d.logfile))
            THEN [opened |-> <<[path |-> d.logfile.text, mode |-> "a"]>>,
                  stdout |-> d.logfile, stderr |-> d.logfile]
            ELSE [opened |-> << >>, stdout |-> None, stderr |-> None]>>
  /\ UNCHANGED <<engineVars, file, passes, descriptor, parsed>>

DescNext == Parse \/ SpawnLocal

DescSpec == DescInit /\ [][DescNext]_vars

(* ---------------------------------------------------------------------- *)
(* Vocabulary of the properties                                            *)
(* ---------------------------------------------------------------------- *)
\* some remote connection is open (the reading of "a Remote Session is
\* Connected" that is most favourable to the code)
Connected == OpenConnections > 0

\* the kinds of the calls of a sequence of calls
Kinds(cs) == {cs[i][1] : i \in DOMAIN cs}

IsUpload(c) == c[1] \in {"upload_ok", "upload_fault"}
IsRunRemote(c) == c[1] \in {"runRemote_ok", "runRemote_fault"}

\* the step is a launch that went down the remote branch
RemoteStep(m) ==
  result'.cmd = "launch" /\ calls' # << >> /\ IsUpload(Head(calls')) /\ Launch(m)

\* the step is a launch that went down the local branch
LocalStep(m) ==
  result'.cmd = "launch" /\ "spawn" \in Kinds(calls') /\ Launch(m)

\* the step is launch_module(m), stop_module(m)
LaunchStep(m) == result'.cmd = "launch" /\ Launch(m)
StopStep(m) == result'.cmd = "stop" /\ Stop(m)

\* the names under which the table tracks a process of module m
Tracked(tbl, ps, m) == {x \in DOMAIN tbl : ps[tbl[x]].module = m}

(* C1: a launch of an existing .sh/.py module takes the remote path only  *)
(* if a remote session is connected, and whenever none is connected it     *)
(* takes the local path and records a Running Instance.                    *)
C1_DispatchRule ==
  [][\A m \in Modules :
       (m \in storage /\ Supported(m) /\ LaunchStep(m)) =>
         /\ RemoteStep(m) => Connected
         /\ ~Connected =>
              /\ LocalStep(m)
              /\ Len(procs') = Len(procs) + 1
              /\ m \in DOMAIN active_processes'
              /\ active_processes'[m] = Len(procs')]_vars

(* C2: an entry of the Running Instance table stays, with its process,     *)
(* until stop of that module: no other command and no natural exit of the  *)
(* process removes it.                                                     *)
C2_EntryStaysUntilStop ==
  [][\A m \in DOMAIN active_processes :
       \/ /\ m \in DOMAIN active_processes'
          /\ active_processes'[m] = active_processes[m]
       \/ StopStep(m)
       \/ LaunchStep(m)]_vars

(* C3: launch of a name with no module file returns failure and changes    *)
(* nothing: no entry, no process, no upload, no remote command, connected  *)
(* or not.                                                                 *)
C3_LaunchMissingNoEffect ==
  [][\A m \in Modules :
       (m \notin storage /\ LaunchStep(m)) =>
         /\ result' = Outcome("launch", "False")
         /\ calls' = << >>
         /\ UNCHANGED <<storage, logs, managers, leaked, engine_ssh, mm_ssh,
                        active_processes, procs, stale, modules, pkgs, todo>>]_vars

\* a launch of a missing module has just failed while a session is connected
C3_Witness ==
  /\ result = Outcome("launch", "False")
  /\ storage = {}
  /\ Connected
  /\ mm_ssh # 0

(* C4: stop(name) on an untracked name leaves table and processes alone;   *)
(* on a tracked name it sends exactly one termination request, to the      *)
(* tracked process, and removes exactly that entry.                        *)
C4_StopFrame ==
  [][\A m \in Modules :
       StopStep(m) =>
         IF m \in DOMAIN active_processes
         THEN /\ procs' = [procs EXCEPT ![active_processes[m]].term = @ + 1]
              /\ DOMAIN active_processes' = DOMAIN active_processes \ {m}
              /\ \A x \in DOMAIN active_processes' :
                   active_processes'[x] = active_processes[x]
         ELSE /\ active_processes' = active_processes
              /\ procs' = procs]_vars

\* one of two tracked modules has just been stopped
C4_Witness ==
  /\ result.cmd = "stop"
  /\ Len(procs) = 2
  /\ procs[1].term = 1
  /\ procs[2].term = 0
  /\ DOMAIN active_processes = {procs[2].module}
  /\ procs[1].module # procs[2].module

(* C5: a local launch of a name that is already tracked leaves one entry   *)
(* for the name, holding the new process; the replaced process is out of   *)
(* the table, and a process out of the table never gets a termination      *)
(* request: stop changes the tracked (latest) process only.                *)
C5_SecondLaunchOverwrites ==
  [][/\ \A m \in Modules :
          LocalStep(m) =>
            /\ active_processes'[m] = Len(procs')
            /\ Tracked(active_processes', procs', m) = {m}
            /\ m \in DOMAIN active_processes =>
                 active_processes[m] \notin Range(active_processes')
     /\ \A p \in DOMAIN procs :
          procs'[p].term # procs[p].term =>
            /\ p \in Range(active_processes)
            /\ \A q \in DOMAIN procs :
                 procs[q].module = procs[p].module => q <= p]_vars

\* launch, launch, stop of one module: the second process got the request
C5_Witness ==
  /\ Len(procs) = 2
  /\ procs[1].module = procs[2].module
  /\ procs[1].term = 0
  /\ procs[2].term = 1
  /\ active_processes = EmptyTable

(* C6: a launch over an active session makes the calls upload, runRemote,  *)
(* write of the output to the log path, in this order and nothing else.    *)
C6_RemoteCallSequence ==
  (result = Outcome("launch", "True") /\ calls # << >> /\ IsUpload(Head(calls)))
    => /\ Len(calls) = 3
       /\ IsUpload(calls[1])
       /\ calls[2][1] = "runRemote_ok"
       /\ calls[3][1] = "write"

(* C7: a launch that takes the remote path leaves the Running Instance     *)
(* table as it was and starts no local process.                            *)
C7_RemoteLaunchUntracked ==
  [][\A m \in Modules :
       RemoteStep(m) =>
         /\ active_processes' = active_processes
         /\ procs' = procs]_vars

\* a remote launch has completed; a process started before the connect exists
C7_Witness ==
  /\ result = Outcome("launch", "True")
  /\ calls # << >>
  /\ "runRemote_ok" \in Kinds(calls)
  /\ Len(procs) > 0
  /\ active_processes = EmptyTable

(* C8: every launch ends by returning a boolean; no fault leaves launch    *)
(* as an exception.                                                        *)
C8_LaunchReturnsBoolean ==
  result.cmd = "launch" => result.out \in {"True", "False"}

(* C9: when the upload of a remote launch fails, the launch aborts:        *)
(* runRemote is not invoked and nothing is written to the log path.        *)
C9_UploadFaultAborts ==
  (result.cmd = "launch" /\ "upload_fault" \in Kinds(calls)) =>
    Kinds(calls) \cap {"runRemote_ok", "runRemote_fault", "write"} = {}

(* C10: at most one remote connection is open at any time, and disconnect  *)
(* leaves none open.                                                       *)
C10_AtMostOneConnection ==
  /\ OpenConnections <= 1
  /\ result.cmd = "disconnect" => OpenConnections = 0

(* ---------------------------------------------------------------------- *)
(* Failed connects                                                         *)
(* ---------------------------------------------------------------------- *)
\* the step is a "connect" that did not connect: the argument is malformed,
\* or connect() raised
FailedConnectStep ==
  /\ result'.cmd = "connect"
  /\ \/ ConnectMalformed
     \/ \E h \in Hosts : ConnectFault(h)

\* the SSHModuleManager a reference stands for (0: None)
Session(ms, ref) ==
  IF ref = 0 THEN [host |-> "None", client |-> "None"] ELSE ms[ref]

(* C11: a connect that fails (malformed argument, or a connection or       *)
(* authentication fault) leaves the engine's session reference, the session *)
(* used by dispatch, the open connections and the Running Instance table    *)
(* as they were.                                                            *)
C11_FailedConnectNoChange ==
  [][FailedConnectStep =>
       /\ Session(managers', engine_ssh') = Session(managers, engine_ssh)
       /\ Session(managers', mm_ssh') = Session(managers, mm_ssh)
       /\ OpenConnections' = OpenConnections
       /\ active_processes' = active_processes]_vars

(* ---------------------------------------------------------------------- *)
(* Line-ending normalization                                               *)
(* ---------------------------------------------------------------------- *)
\* no carriage return is immediately followed by a line feed
NoCRLF(content) ==
  \A i \in 1..(Len(content) - 1) :
    ~(content[i] = "CR" /\ content[i + 1] = "LF")

\* after is before with some carriage returns removed and nothing else
\* removed, added or moved
RECURSIVE OnlyCRRemoved(_, _)
OnlyCRRemoved(before, after) ==
  IF before = << >> THEN after = << >>
  ELSE \/ /\ after # << >>
          /\ Head(after) = Head(before)
          /\ OnlyCRRemoved(Tail(before), Tail(after))
       \/ /\ Head(before) = "CR"
          /\ OnlyCRRemoved(Tail(before), after)

(* C12: for every file content, the normalized content has no carriage     *)
(* return immediately followed by a line feed, every byte other than the    *)
(* removed carriage returns is kept in order, and normalizing a second time *)
(* changes nothing.                                                         *)
C12_Normalization ==
  [][passes' = passes + 1 =>
       /\ NoCRLF(file')
       /\ OnlyCRRemoved(file, file')
       /\ passes >= 1 => file' = file]_vars

(* ---------------------------------------------------------------------- *)
(* Output streams of a local launch                                        *)
(* ---------------------------------------------------------------------- *)
\* the descriptor declares a log path: the path is there and is not empty
DeclaresLogPath(d) == ~d.logfile.none /\ d.logfile.text # << >>

(* C13: a local launch gives the process the declared log file, opened in  *)
(* append mode, for both output streams exactly when the descriptor's      *)
(* silent flag is true and a log path is declared; in every other case the *)
(* process inherits the caller's streams and no log file is opened.        *)
C13_SilentRedirect ==
  spawned # << >> =>
    LET d == parsed[1]
        p == spawned[1]
    IN IF d.silent /\ DeclaresLogPath(d)
       THEN /\ p.opened = <<[path |-> d.logfile.text, mode |-> "a"]>>
            /\ p.stdout = Str(d.logfile.text)
            /\ p.stderr = Str(d.logfile.text)
       ELSE /\ p.opened = << >>
            /\ p.stdout = None
            /\ p.stderr = None

\* a module that declares a log path and is not silent has been launched;
\* its process inherits the streams
C13_Witness ==
  /\ spawned # << >>
  /\ ~parsed[1].silent
  /\ DeclaresLogPath(parsed[1])
  /\ spawned[1].stdout = None

(* ---------------------------------------------------------------------- *)
(* Dependency installation                                                 *)
(* ---------------------------------------------------------------------- *)
\* the step is install_module of the next selected module, with its file
\* downloaded
InstallStep ==
  /\ result'.cmd = "install"
  /\ todo # << >>
  /\ result'.out \notin {"None", "raise:RequestException"}
  /\ InstallModule

\* the positions of the sequence at which x stands
Positions(q, x) == {i \in DOMAIN q : q[i] = x}

(* C14: when the local install command of a dependency fails, it is the    *)
(* last thing the installer does: no dependency after it in the declared   *)
(* order is checked or installed, the failure leaves the installer as an   *)
(* exception and the module is not reported as installed.                  *)
C14_LocalInstallAborts ==
  [][(InstallStep /\ "apt_fault" \in Kinds(calls')) =>
       LET deps == parse_dependencies(Head(todo))
           dep  == calls'[Len(calls')][2]
       IN /\ calls'[Len(calls')][1] = "apt_fault"
          /\ \A i \in Positions(deps, dep), j \in DOMAIN deps :
               j > i => /\ \A k \in DOMAIN calls' : calls'[k][2] # deps[j]
                        /\ deps[j] \in pkgs' => deps[j] \in pkgs
          /\ dep \notin pkgs'
          /\ result'.out = "raise:CalledProcessError"]_vars

\* the install command of the first dependency of a.sh has failed; the
\* second dependency has not been looked at
C14_Witness ==
  /\ result = Outcome("install", "raise:CalledProcessError")
  /\ calls = <<<<"which", "nmap">>, <<"apt_fault", "nmap">>>>
  /\ "a.sh" \in storage

\* the dependencies for which the calls hold a command of one of the kinds
Commanded(cs, kinds) == {cs[i][2] : i \in {k \in DOMAIN cs : cs[k][1] \in kinds}}

(* C15: with no active remote session the installer runs locally: it       *)
(* issues the local install command exactly for the declared dependencies  *)
(* that are not on the search path, never for one that is, and no remote    *)
(* command; with an active session it issues the remote install command     *)
(* for every declared dependency in the declared order, with no presence    *)
(* check and no local install command.                                      *)
C15_InstallTarget ==
  [][InstallStep =>
       LET deps == parse_dependencies(Head(todo))
           all  == {deps[i] : i \in DOMAIN deps}
       IN IF ~Connected
          THEN /\ Kinds(calls') \subseteq {"which", "apt", "apt_fault"}
               /\ result'.out \in {"installed", "raise:CalledProcessError"}
               /\ Commanded(calls', {"apt", "apt_fault"}) \cap pkgs = {}
               /\ result'.out = "installed" =>
                    Commanded(calls', {"apt"}) = all \ pkgs
          ELSE /\ Kinds(calls') \subseteq {"ssh_apt", "ssh_apt_fault"}
               /\ result'.out = "installed" =>
                    calls' = [i \in DOMAIN deps |-> <<"ssh_apt", deps[i]>>]]_vars

(* ---------------------------------------------------------------------- *)
(* remove, unsupported module types                                        *)
(* ---------------------------------------------------------------------- *)
\* the step is remove_module(m)
RemoveStep(m) == result'.cmd = "remove" /\ Remove(m)

(* C16: remove(name) deletes the module file and returns success if the    *)
(* file exists, returns failure and leaves storage alone otherwise; the    *)
(* Running Instance table, the processes and the session state are         *)
(* unchanged, so that a later stop(name) still reaches the process of the  *)
(* removed module, while launch(name) fails as module not found.           *)
C16_RemoveFrame ==
  [][\A m \in Modules :
       /\ RemoveStep(m) =>
            /\ storage' = storage \ {m}
            /\ result'.out = IF m \in storage THEN "True" ELSE "False"
            /\ UNCHANGED <<active_processes, procs, logs, managers, leaked,
                           engine_ssh, mm_ssh>>
       /\ (m \notin storage /\ m \in DOMAIN active_processes /\ StopStep(m)) =>
            procs'[active_processes[m]].term =
              procs[active_processes[m]].term + 1
       /\ (m \notin storage /\ LaunchStep(m)) =>
            result' = Outcome("launch", "False")]_vars

\* the file of a module whose process is tracked has just been removed
C16_Witness ==
  /\ result = Outcome("remove", "True")
  /\ storage = {}
  /\ \E m \in DOMAIN active_processes :
       procs[active_processes[m]].term = 0

(* ---------------------------------------------------------------------- *)
(* Descriptor round trip                                                   *)
(* ---------------------------------------------------------------------- *)
\* what stands on a marker line after the marker and its colon
Remainder(line) == SubSeq(line, 3, Len(line))

\* the literal value of a flag, of the path and of a comma list on the
\* first line that carries the marker; the default when no line does
LiteralFlag(lines, mk) ==
  LET found == FirstMarked(lines, mk)
  IN found # << >> /\ lower(strip(Remainder(found[1]))) = <<"true">>

LiteralPath(lines) ==
  LET found == FirstMarked(lines, "# Logfile")
  IN IF found = << >> THEN None ELSE Str(strip(Remainder(found[1])))

LiteralList(lines, mk) ==
  LET found == FirstMarked(lines, mk)
  IN IF found = << >> THEN << >>
     ELSE LET items == split(Remainder(found[1]), ",")
          IN [i \in DOMAIN items |-> strip(items[i])]

(* C17: every field parses to the literal value after its marker: a flag   *)
(* to whether the trimmed remainder of the line is "true" in any case, the *)
(* log path to the whole trimmed remainder, colons included, a comma list  *)
(* to its trimmed tokens in order; whatever the other lines are; and to    *)
(* the default (false, no path, empty list) when the marker is absent.     *)
C17_DescriptorRoundTrip ==
  parsed # << >> =>
    /\ parsed[1].silent = LiteralFlag(descriptor, "# Silent")
    /\ parsed[1].follow = LiteralFlag(descriptor, "# Follow_log")
    /\ parsed[1].logfile = LiteralPath(descriptor)
    /\ parsed[1].deps = LiteralList(descriptor, "# Dependencies")
    /\ parsed[1].inputs = LiteralList(descriptor, "# Inputs")

(* C18: launch of an existing module whose name ends in neither .sh nor   *)
(* .py fails with no effect: no upload, no remote command, no process, no  *)
(* log write, no change of the Running Instance table, connected or not.   *)
C18_UnsupportedNoEffect ==
  [][\A m \in Modules :
       (/\ m \in storage
        /\ ~EndsWith(m, ".sh")
        /\ ~EndsWith(m, ".py")
        /\ LaunchStep(m)) =>
         /\ result' = Outcome("launch", "False")
         /\ calls' = << >>
         /\ UNCHANGED <<storage, logs, managers, leaked, engine_ssh, mm_ssh,
                        active_processes, procs, stale>>]_vars

\* every module is installed, c.txt among them, a session is connected and
\* a launch has just failed: the launch of c.txt
C18_Witness ==
  /\ result = Outcome("launch", "False")
  /\ storage = Modules
  /\ mm_ssh # 0
  /\ managers[mm_ssh].client = "open"

(* ---------------------------------------------------------------------- *)
(* The command loop                                                        *)
(* ---------------------------------------------------------------------- *)
\* the step is the try statement of run dealing with what was raised
ExceptStep == result.out \in Raises /\ result' # result /\ Except

(* C19: the loop ends on a user interrupt, on end of input and on the exit *)
(* command, and on nothing else: a fault raised by a command is reported   *)
(* with a labeled message and the loop goes on to the next prompt.         *)
C19_LoopEndsOnlyOnRequest ==
  [][/\ ExceptStep =>
          IF result.out \in {"raise:KeyboardInterrupt", "raise:EOFError"}
          THEN result'.out = "break"
          ELSE result'.out = "print_error"
     /\ (result'.out = "break" /\ result.out # "break") =>
          \/ result'.cmd = "exit"
          \/ result.out \in {"raise:KeyboardInterrupt", "raise:EOFError"}
     /\ (result.out = "print_error" /\ result' # result) =>
          result' = Outcome("prompt", "None")
     /\ result.out = "break" => result' = result]_vars

(* ---------------------------------------------------------------------- *)
(* The connection status line                                              *)
(* ---------------------------------------------------------------------- *)
\* where the next launch or install would run: on the host of the session
\* the ModuleManager holds, or locally
DispatchTarget(ms, m) == IF UsesRemote(m) THEN ms[m].host ELSE "local"

\* where the status line says it would run
StatusTarget(toolbar) ==
  IF toolbar[1] = "Connected to" THEN toolbar[2] ELSE "local"

(* C20: the status line reads 'Connected to <host>' exactly when the next  *)
(* launch or install would target the remote host <host>, and 'No Active   *)
(* SSH Connection' exactly when it would run locally.                      *)
C20_StatusAgreesWithDispatch ==
  StatusTarget(get_bottom_toolbar_tokens(managers, engine_ssh))
    = DispatchTarget(managers, mm_ssh)

(* ---------------------------------------------------------------------- *)
(* install is not atomic                                                   *)
(* ---------------------------------------------------------------------- *)
\* the ways in which install_dependencies fails
DependencyFaults ==
  {"raise:CalledProcessError", "raise:SSHException", "raise:AttributeError"}

=============================================================================
